---- MODULE Spec2Model ----
(***************************************************************************)
(* Model of the authentication blueprint of HappyTrashFlask               *)
(* (src/apps/auth/__init__.py): login (POST /v1/auth), whoami             *)
(* (GET /v1/auth), refresh (POST /v1/auth/refresh) and the CORS options    *)
(* handlers, run by a small pool of request workers against the Users     *)
(* table and the wall clock.                                               *)
(*                                                                         *)
(* A login is modelled step by step at the places where the handler reads *)
(* shared state (the Users table, the clock), and the clock and the table  *)
(* may change between any two steps.  Time is counted in whole seconds, as *)
(* the exp and iat fields of a JWT are.                                    *)
(*                                                                         *)
(* Specifications: Spec (requests one after the other, clock and table     *)
(* moving), SpecConc (two requests in flight, their steps interleaved),    *)
(* SpecCase (emails spelled in another letter case, on either collation of *)
(* the email column) and SpecTest (the token helpers of src/tests with     *)
(* their cache).                                                           *)
(***************************************************************************)
EXTENDS Integers, Sequences, FiniteSets, TLC

\* ------------------------------------------------------------------ bounds

\* Largest clock value explored.
MaxTime == 2
\* Number of requests admitted in one behaviour.
MaxReq == 3
\* Number of changes made to the Users table by the flows outside the blueprint.
MaxDirOps == 1

\* ------------------------------------------------------- values of the model

\* The request workers of the process, and those that Spec lets serve: under
\* Spec requests are handled one after the other, while the clock and the
\* Users table move between the steps of each.
Workers == {1, 2}
Serving == {1}

\* Python's None; a record, so that it compares with rows and tokens.
None == [none |-> TRUE]

\* Strings that the code inspects character by character are sequences of
\* one-character strings.
E_user == <<"u", "s", "e", "r", "@", "u", "s", "e", "r", ".", "c", "o", "m">>
E_admin == <<"a", "d", "m", "i", "n", "@", "a", "d", "m", "i", "n", ".", "c", "o", "m">>
E_ghost == <<"g", "h", "o", "s", "t", "@", "x", ".", "i", "o">>
E_bad == <<"u", "s", "e", "r", ".", "c", "o", "m">>
\* The email of the seeded user as a client may spell it: it differs from
\* E_user in letter case only.
E_USER == <<"U", "s", "e", "r", "@", "U", "S", "E", "R", ".", "c", "o", "m">>

\* The emails and passwords that requests carry.
Emails == {E_user, E_admin, E_ghost, E_bad}
Passwords == {"user", "admin"}

\* ---------------------------------------------------------- passlib.sha256_crypt

\* sha256_crypt.hash(secret) with the salt it drew: the "$5$" scheme tag, the
\* salt in clear and the digest of salt and secret (kept symbolic: a pair is
\* equal to another pair only for the same salt and the same secret).
sha256_crypt_hash(secret, salt) == [scheme |-> "$5$", salt |-> salt, digest |-> <<salt, secret>>]

\* sha256_crypt.verify(secret, hash): re-hash the secret with the salt stored
\* in the hash and compare.
sha256_crypt_verify(secret, hash) == sha256_crypt_hash(secret, hash.salt) = hash

\* ------------------------------------------------------------ the Users table

\* A row of Users as resetDatabase builds it: Users(name, email,
\* mobile_number, password, status), the id given by the table.
Row(id, name, email, mobile, password, salt, status) ==
  [id |-> id, name |-> name, email |-> email, mobile_number |-> mobile,
   password |-> sha256_crypt_hash(password, salt), status |-> status]

\* The table after resetDatabase().
SeedUsers ==
  { Row(1, "user", E_user, "081122112211", "user", "s1", FALSE),
    Row(2, "admin", E_admin, "0811221122112", "admin", "s2", TRUE) }

\* The collation of the email column, fixed when the table is created: the
\* handler hands the email of the request to the database as it came, and
\* the column compares it with the stored one either character by character
\* ("binary") or regardless of letter case ("ci").
VARIABLE collation
Collations == {"binary", "ci"}

UpperToLower == [U |-> "u", S |-> "s", E |-> "e", R |-> "r"]
Lower(str) ==
  [i \in 1..Len(str) |->
     IF str[i] \in DOMAIN UpperToLower THEN UpperToLower[str[i]] ELSE str[i]]

\* The comparison the WHERE clause makes.
SameEmail(stored, given) ==
  IF collation = "ci" THEN Lower(stored) = Lower(given) ELSE stored = given

\* Users.query.filter_by(email=email).first(): no normalisation of the
\* argument on the way.
\* (FirstByEmail_Normalized: the variant that lower-cases the argument
\* before the query.)
FirstByEmail_Normalized(table, email) ==
  LET hits == {u \in table : SameEmail(u.email, Lower(email))}
  IN IF hits = {} THEN None ELSE CHOOSE u \in hits : TRUE
FirstByEmail(table, email) ==
  LET hits == {u \in table : SameEmail(u.email, email)}
  IN IF hits = {} THEN None ELSE CHOOSE u \in hits : TRUE

\* ------------------------------------------------------------ Users (model class)

Letters ==
  {"a", "d", "e", "g", "h", "i", "m", "n", "o", "r", "s", "t", "u", "x", "c"}
    \cup {"U", "S", "E", "R"}

\* Users.isEmailAddressValid: one "@" with a non-empty local part of letters
\* before it, and after it a domain of letters holding a "." that is neither
\* its first nor its last character.
isEmailAddressValid(email) ==
  LET at == {i \in 1..Len(email) : email[i] = "@"}
  IN /\ Cardinality(at) = 1
     /\ LET a == CHOOSE i \in at : TRUE
            dots == {i \in (a + 1)..Len(email) : email[i] = "."}
        IN /\ a > 1
           /\ \A i \in 1..(a - 1) : email[i] \in Letters
           /\ \A i \in (a + 1)..Len(email) : email[i] \in Letters \cup {"."}
           /\ dots # {}
           /\ \A d \in dots : d > a + 1 /\ d < Len(email)

\* Users.login_response_field: the columns marshalled for a login.
login_response_field == {"id", "email", "password", "status"}

\* marshal(user, fields): the row cut down to the named fields.
marshal(user, fields) == [f \in fields |-> user[f]]

\* dict.pop(key) as used on user_data: the mapping without the key.
\* (Pop_KeepsKey: the faulty variant that leaves the key in.)
Pop_KeepsKey(d, key) == d
Pop(d, key) == [f \in (DOMAIN d) \ {key} |-> d[f]]

\* ------------------------------------------------- flask_jwt_extended (codec)

\* JWT_ACCESS_TOKEN_EXPIRES, in seconds of the model's clock: the fixed
\* lifetime of a token.
TTL == 1

\* JWT_SECRET_KEY, set once at start-up, and a key the server does not hold.
SecretKey == "server-key"
OtherKey == "other-key"

\* The order in which the keys of a mapping are written out.
KeyOrder == <<"email", "id", "name", "mobile_number", "password", "status">>

\* The JSON object of a mapping, as the list of its (key, value) members.
RECURSIVE JsonMembers(_, _)
JsonMembers(d, i) ==
  IF i > Len(KeyOrder) THEN <<>>
  ELSE IF KeyOrder[i] \in DOMAIN d
       THEN <<<<KeyOrder[i], d[KeyOrder[i]]>>>> \o JsonMembers(d, i + 1)
       ELSE JsonMembers(d, i + 1)

JsonEncode(d) == JsonMembers(d, 1)

\* The mapping read back from a JSON object.
JsonDecode(members) ==
  [k \in {members[i][1] : i \in 1..Len(members)} |->
     LET i == CHOOSE j \in 1..Len(members) : members[j][1] = k
     IN members[i][2]]

\* The part of a token that the signature covers.
Payload(tok) == [identity |-> tok.identity, user_claims |-> tok.user_claims,
                 iat |-> tok.iat, exp |-> tok.exp]

\* HS256 over the payload, kept symbolic: equal only for the same key and
\* the same payload.
Sign(key, payload) == <<key, payload>>

\* The encoded token for an identity and claims minted at clock value t.
EncodeToken(identity, user_claims, t, key) ==
  LET payload == [identity |-> identity, user_claims |-> JsonEncode(user_claims),
                  iat |-> t, exp |-> t + TTL]
  IN [identity |-> payload.identity, user_claims |-> payload.user_claims,
      iat |-> payload.iat, exp |-> payload.exp, sig |-> Sign(key, payload)]

\* create_access_token(identity=..., user_claims=...) called at clock value t.
create_access_token(identity, user_claims, t) ==
  EncodeToken(identity, user_claims, t, SecretKey)

\* What a request may carry in its Authorization header besides a token the
\* server minted: nothing, something that is no JWT, a token signed with
\* another key, or a minted token whose payload was altered afterwards.
NoHeader == [header |-> "absent"]
Garbage == [header |-> "not-a-jwt"]
Forged ==
  EncodeToken(E_admin,
              [id |-> 2, email |-> E_admin,
               password |-> sha256_crypt_hash("admin", "s2"), status |-> TRUE],
              0, OtherKey)
Tamper(tok) ==
  [tok EXCEPT !.user_claims = JsonEncode([JsonDecode(@) EXCEPT !["status"] = TRUE]),
              !.exp = @ + TTL]

IsTokenShaped(cred) == DOMAIN cred = {"identity", "user_claims", "iat", "exp", "sig"}

\* decode_token as verify_jwt_in_request runs it at clock value t: the
\* failure it raises, or "ok".  PyJWT raises ExpiredSignatureError only when
\* exp < now, so a token is still accepted during the second equal to exp.
\* (DecodeOutcome_NoSignatureCheck: the faulty variant that trusts any
\* token-shaped header.)
DecodeOutcome_NoSignatureCheck(cred, t) ==
  IF cred = NoHeader THEN "NoAuthorization"
  ELSE IF ~IsTokenShaped(cred) THEN "InvalidToken"
  ELSE IF cred.exp < t THEN "TokenExpired"
  ELSE "ok"
DecodeOutcome(cred, t) ==
  IF cred = NoHeader THEN "NoAuthorization"
  ELSE IF ~IsTokenShaped(cred) THEN "InvalidToken"
  ELSE IF cred.sig # Sign(SecretKey, Payload(cred)) THEN "InvalidToken"
  ELSE IF cred.exp < t THEN "TokenExpired"
  ELSE "ok"

\* get_jwt_identity() and get_jwt_claims() of a verified token.
get_jwt_identity(cred) == cred.identity
get_jwt_claims(cred) == JsonDecode(cred.user_claims)

\* ------------------------------------------------------------------ responses

JsonHeaders == [ContentType |-> "application/json"]
NoHeaders == [none |-> TRUE]

Response(body, code, headers) == [code |-> code, body |-> body, headers |-> headers]

\* reqparse's abort for the first required argument that is missing.
MissingArgument(name) ==
  Response([message |-> [argument |-> name,
                         help |-> "Missing required parameter in the JSON body"]],
           400, JsonHeaders)
InvalidEmailFormat == Response([message |-> "Invalid email format!"], 400, JsonHeaders)
Unauthorized ==
  Response([status |-> "UNATHORIZED", message |-> "invalid email or password"],
           401, JsonHeaders)
\* The return of login when the query finds no row, and when the password
\* does not verify.  (UserNotFound_Revealing: the faulty variant that tells
\* the caller the email is unknown.)
UserNotFound_Revealing ==
  Response([status |-> "NOT_FOUND", message |-> "email is not registered"],
           404, JsonHeaders)
UserNotFound == Unauthorized
WrongPassword == Unauthorized
TokenIssued(token) == Response([status |-> "OK", token |-> token], 200, JsonHeaders)
ClaimsReturned(claims) == Response([claims |-> claims], 200, JsonHeaders)
\* The answer of the token gate to a request it turns away.
GateRejected == Response([msg |-> "Unauthorized"], 401, JsonHeaders)

\* ---------------------------------------------------------------------- state

VARIABLES
  directory,  \* the rows of the Users table
  now,        \* the wall clock, in seconds
  pc,         \* per worker: where its current request stands
  op,         \* per worker: the handler its request was routed to
  args,       \* per worker: the JSON body, or the Authorization header
  user,       \* per worker: the row that login's query returned
  matched,    \* per worker: the rows the table held under the request's
              \* email at the moment login queried it
  jwt,        \* per worker: what the gate decided and when; for a refresh,
              \* whether the claims it minted differed from the table's
  resp,       \* per worker: the response sent
  trace,      \* per worker: the calls its request has made, in order
  issued,     \* every token minted so far, with the handler that minted it
  nreq,       \* requests admitted so far
  ndir,       \* changes made to the Users table so far
  cache,      \* the cache of the test module: per key, the entry or None
  helper      \* the call of a token helper of the test module in progress

vars == <<collation, directory, now, pc, op, args, user, matched, jwt, resp, trace, issued, nreq, ndir,
          cache, helper>>

Terminal == {"Issued", "Rejected", "Done"}

\* The keys of the test module's cache, and no helper call in progress.
CacheKeys == {"token-user", "token-admin"}
NoCall == [name |-> "none", pc |-> "idle", hit |-> FALSE, seq |-> 0, at |-> 0, result |-> None]

\* The claims the Users table holds for an identity right now, None when it
\* holds no such row.
CurrentClaims(identity) ==
  LET row == FirstByEmail(directory, identity)
  IN IF row = None THEN None
     ELSE Pop(marshal(row, login_response_field), "password")

\* The record kept of a minted token: the handler that minted it, the token
\* presented to it (refresh) and the claims mapping handed to
\* create_access_token.
Minted(token, handler, presented, claims) ==
  [token |-> token, by |-> handler, from |-> presented, claims |-> claims]

MintedTokens == {m.token : m \in issued}

\* The JSON bodies a login request may carry: each of the two fields is
\* present or absent.
LoginBodies ==
  {[email |-> e, password |-> p] : e \in Emails, p \in Passwords}
    \cup {[email |-> e] : e \in Emails}
    \cup {[password |-> p] : p \in Passwords}
    \cup {[f \in {} |-> None]}

\* The Authorization headers a request may carry.
Credentials ==
  {NoHeader, Garbage, Forged}
    \cup {m.token : m \in issued}
    \cup {Tamper(m.token) : m \in issued}

\* Under Spec every request spells its email as the table stores it, so
\* both collations answer every query alike; SpecCase below explores both.
Init ==
  /\ collation = "binary"
  /\ directory = SeedUsers
  /\ now = 0
  /\ pc = [w \in Workers |-> "idle"]
  /\ op = [w \in Workers |-> "none"]
  /\ args = [w \in Workers |-> None]
  /\ user = [w \in Workers |-> None]
  /\ matched = [w \in Workers |-> {}]
  /\ jwt = [w \in Workers |-> None]
  /\ resp = [w \in Workers |-> None]
  /\ trace = [w \in Workers |-> <<>>]
  /\ issued = {}
  /\ nreq = 0
  /\ ndir = 0
  /\ cache = [k \in CacheKeys |-> None]
  /\ helper = NoCall

\* A worker takes the next request once it has answered the previous one.
Admit(w, handler, input) ==
  /\ pc[w] \in Terminal \cup {"idle"}
  /\ nreq < MaxReq
  /\ nreq' = nreq + 1
  /\ op' = [op EXCEPT ![w] = handler]
  /\ args' = [args EXCEPT ![w] = input]
  /\ user' = [user EXCEPT ![w] = None]
  /\ matched' = [matched EXCEPT ![w] = {}]

\* ------------------------------------------- CreateTokenResources.post (login)

\* parser.parse_args(): both arguments are required; the first one missing
\* aborts the request with 400.  (Post_ParseArgs_PasswordOptional: the
\* faulty variant with required=False on password.)
Post_ParseArgs_PasswordOptional(w, body) ==
  /\ Admit(w, "login", body)
  /\ jwt' = [jwt EXCEPT ![w] = None]
  /\ trace' = [trace EXCEPT ![w] = <<"parse_args">>]
  /\ IF "email" \notin DOMAIN body
     THEN /\ pc' = [pc EXCEPT ![w] = "Rejected"]
          /\ resp' = [resp EXCEPT ![w] = MissingArgument("email")]
     ELSE /\ pc' = [pc EXCEPT ![w] = "Received"]
          /\ resp' = [resp EXCEPT ![w] = None]
  /\ UNCHANGED <<collation, cache, helper, directory, now, issued, ndir>>
Post_ParseArgs(w, body) ==
  /\ Admit(w, "login", body)
  /\ jwt' = [jwt EXCEPT ![w] = None]
  /\ trace' = [trace EXCEPT ![w] = <<"parse_args">>]
  /\ IF "email" \notin DOMAIN body
     THEN /\ pc' = [pc EXCEPT ![w] = "Rejected"]
          /\ resp' = [resp EXCEPT ![w] = MissingArgument("email")]
     ELSE IF "password" \notin DOMAIN body
     THEN /\ pc' = [pc EXCEPT ![w] = "Rejected"]
          /\ resp' = [resp EXCEPT ![w] = MissingArgument("password")]
     ELSE /\ pc' = [pc EXCEPT ![w] = "Received"]
          /\ resp' = [resp EXCEPT ![w] = None]
  /\ UNCHANGED <<collation, cache, helper, directory, now, issued, ndir>>

\* if not Users.isEmailAddressValid(args['email']): 400
\* (Post_ValidateEmail_Skipped: the faulty variant without the test.)
Post_ValidateEmail_Skipped(w) ==
  /\ pc[w] = "Received"
  /\ op[w] = "login"
  /\ trace' = [trace EXCEPT ![w] = Append(@, "isEmailAddressValid")]
  /\ pc' = [pc EXCEPT ![w] = "Validated"]
  /\ UNCHANGED <<collation, cache, helper, directory, now, op, args, user, matched, jwt, resp, issued, nreq, ndir>>
Post_ValidateEmail(w) ==
  /\ pc[w] = "Received"
  /\ op[w] = "login"
  /\ trace' = [trace EXCEPT ![w] = Append(@, "isEmailAddressValid")]
  /\ IF ~isEmailAddressValid(args[w]["email"])
     THEN /\ pc' = [pc EXCEPT ![w] = "Rejected"]
          /\ resp' = [resp EXCEPT ![w] = InvalidEmailFormat]
     ELSE /\ pc' = [pc EXCEPT ![w] = "Validated"]
          /\ UNCHANGED resp
  /\ UNCHANGED <<collation, cache, helper, directory, now, op, args, user, matched, jwt, issued, nreq, ndir>>

\* user = Users.query.filter_by(email=args['email']).first(); None: 401
\* (Post_QueryUser_SharedUser: the faulty variant that keeps the row in a
\* variable of the module, shared by all workers.)
Post_QueryUser_SharedUser(w) ==
  /\ pc[w] = "Validated"
  /\ op[w] = "login"
  /\ trace' = [trace EXCEPT ![w] = Append(@, "query")]
  /\ LET found == FirstByEmail(directory, args[w]["email"])
     IN /\ user' = [v \in Workers |-> found]
        /\ matched' = [matched EXCEPT ![w] =
                         {u \in directory : SameEmail(u.email, args[w]["email"])}]
        /\ IF found = None
           THEN /\ pc' = [pc EXCEPT ![w] = "Rejected"]
                /\ resp' = [resp EXCEPT ![w] = UserNotFound]
           ELSE /\ pc' = [pc EXCEPT ![w] = "Found"]
                /\ UNCHANGED resp
  /\ UNCHANGED <<collation, cache, helper, directory, now, op, args, jwt, issued, nreq, ndir>>
Post_QueryUser(w) ==
  /\ pc[w] = "Validated"
  /\ op[w] = "login"
  /\ trace' = [trace EXCEPT ![w] = Append(@, "query")]
  /\ LET found == FirstByEmail(directory, args[w]["email"])
     IN /\ user' = [user EXCEPT ![w] = found]
        /\ matched' = [matched EXCEPT ![w] =
                         {u \in directory : SameEmail(u.email, args[w]["email"])}]
        /\ IF found = None
           THEN /\ pc' = [pc EXCEPT ![w] = "Rejected"]
                /\ resp' = [resp EXCEPT ![w] = UserNotFound]
           ELSE /\ pc' = [pc EXCEPT ![w] = "Found"]
                /\ UNCHANGED resp
  /\ UNCHANGED <<collation, cache, helper, directory, now, op, args, jwt, issued, nreq, ndir>>

\* user_data = marshal(user, Users.login_response_field);
\* if not sha256_crypt.verify(args['password'], user_data['password']): 401
\* (PasswordAccepted_Remembered: the faulty variant that keeps a session
\* between requests and lets in whoever logged in before.)
PasswordAccepted_Remembered(w) ==
  LET user_data == marshal(user[w], login_response_field)
  IN \/ sha256_crypt_verify(args[w]["password"], user_data["password"])
     \/ \E m \in issued : m.by = "login" /\ m.token.identity = args[w]["email"]
PasswordAccepted(w) ==
  LET user_data == marshal(user[w], login_response_field)
  IN sha256_crypt_verify(args[w]["password"], user_data["password"])

\* (Post_VerifyPassword_Retries: the faulty variant that sends a request whose
\* password did not verify back to the query instead of answering it.)
Post_VerifyPassword_Retries(w) ==
  /\ pc[w] = "Found"
  /\ op[w] = "login"
  /\ trace' = [trace EXCEPT ![w] = Append(@, "verify")]
  /\ IF ~PasswordAccepted(w)
     THEN pc' = [pc EXCEPT ![w] = "Validated"]
     ELSE pc' = [pc EXCEPT ![w] = "Authenticated"]
  /\ UNCHANGED <<collation, cache, helper, directory, now, op, args, user, matched, jwt, resp, issued, nreq, ndir>>
Post_VerifyPassword(w) ==
  /\ pc[w] = "Found"
  /\ op[w] = "login"
  /\ trace' = [trace EXCEPT ![w] = Append(@, "verify")]
  /\ IF ~PasswordAccepted(w)
     THEN /\ pc' = [pc EXCEPT ![w] = "Rejected"]
          /\ resp' = [resp EXCEPT ![w] = WrongPassword]
     ELSE /\ pc' = [pc EXCEPT ![w] = "Authenticated"]
          /\ UNCHANGED resp
  /\ UNCHANGED <<collation, cache, helper, directory, now, op, args, user, matched, jwt, issued, nreq, ndir>>

\* user_data.pop('password');
\* token = create_access_token(identity=args['email'], user_claims=user_data)
\* (LoginClaims_KeepsPassword: the faulty variant without the pop.)
LoginClaims_KeepsPassword(w) == marshal(user[w], login_response_field)
LoginClaims(w) == Pop(marshal(user[w], login_response_field), "password")

LoginToken(w) == create_access_token(args[w]["email"], LoginClaims(w), now)

Post_CreateToken(w) ==
  /\ pc[w] = "Authenticated"
  /\ op[w] = "login"
  /\ trace' = [trace EXCEPT ![w] = Append(@, "create_access_token")]
  /\ LET token == LoginToken(w)
     IN /\ issued' = issued \cup {Minted(token, "login", None, LoginClaims(w))}
        /\ resp' = [resp EXCEPT ![w] = TokenIssued(token)]
  /\ pc' = [pc EXCEPT ![w] = "Issued"]
  /\ UNCHANGED <<collation, cache, helper, directory, now, op, args, user, matched, jwt, nreq, ndir>>

\* -------------------------------------------------------- @jwt_required (gate)

\* The decorator: verify_jwt_in_request() on the Authorization header before
\* the handler body; the body runs only on "ok".  (Faulty variants: one that
\* does not verify the signature, one that turns away a token once a refresh
\* was minted from it.)
JwtRequired_NoSignatureCheck(cred, t) == DecodeOutcome_NoSignatureCheck(cred, t)
JwtRequired_RevokesRefreshed(cred, t) ==
  IF \E m \in issued : m.by = "refresh" /\ m.from = cred
  THEN "InvalidToken"
  ELSE DecodeOutcome(cred, t)
\* (JwtRequired_AnyKey: the faulty variant that accepts a signature made
\* with any key, as long as it covers the payload presented.)
JwtRequired_AnyKey(cred, t) ==
  IF cred = NoHeader THEN "NoAuthorization"
  ELSE IF ~IsTokenShaped(cred) THEN "InvalidToken"
  ELSE IF cred.sig[2] # Payload(cred) THEN "InvalidToken"
  ELSE IF cred.exp < t THEN "TokenExpired"
  ELSE "ok"
JwtRequired(cred, t) == DecodeOutcome(cred, t)

\* -------------------------------------------- RefreshTokenResources.post (refresh)

Refresh_JwtRequired(w, cred) ==
  /\ Admit(w, "refresh", cred)
  /\ trace' = [trace EXCEPT ![w] = <<"jwt_required">>]
  /\ LET outcome == JwtRequired(cred, now)
     IN /\ jwt' = [jwt EXCEPT ![w] = [outcome |-> outcome, at |-> now, stale |-> FALSE]]
        /\ IF outcome # "ok"
           THEN /\ pc' = [pc EXCEPT ![w] = "Rejected"]
                /\ resp' = [resp EXCEPT ![w] = GateRejected]
           ELSE /\ pc' = [pc EXCEPT ![w] = "Verified"]
                /\ resp' = [resp EXCEPT ![w] = None]
  /\ UNCHANGED <<collation, cache, helper, directory, now, issued, ndir>>

\* current_user = get_jwt_identity(); current_claim = get_jwt_claims();
\* token = create_access_token(identity=current_user, user_claims=current_claim)
\* (Faulty variants: one that reads the claims from the Users table again,
\* one that mints with the issue time of the presented token.)
RefreshToken_FromDirectory(w) ==
  LET current_user == get_jwt_identity(args[w])
      row == FirstByEmail(directory, current_user)
  IN IF row = None
     THEN create_access_token(current_user, get_jwt_claims(args[w]), now)
     ELSE create_access_token(current_user,
                              Pop(marshal(row, login_response_field), "password"), now)
RefreshToken_KeepsExpiry(w) ==
  create_access_token(get_jwt_identity(args[w]), get_jwt_claims(args[w]), args[w].iat)
RefreshToken(w) ==
  LET current_user == get_jwt_identity(args[w])
      current_claim == get_jwt_claims(args[w])
  IN create_access_token(current_user, current_claim, now)

Refresh_CreateToken(w) ==
  /\ pc[w] = "Verified"
  /\ op[w] = "refresh"
  /\ trace' = [trace EXCEPT ![w] = Append(@, "create_access_token")]
  /\ LET token == RefreshToken(w)
     IN /\ issued' = issued \cup {Minted(token, "refresh", args[w], get_jwt_claims(args[w]))}
        /\ resp' = [resp EXCEPT ![w] = TokenIssued(token)]
        /\ jwt' = [jwt EXCEPT ![w].stale =
                     CurrentClaims(token.identity) # get_jwt_claims(token)]
  /\ pc' = [pc EXCEPT ![w] = "Issued"]
  /\ UNCHANGED <<collation, cache, helper, directory, now, op, args, user, matched, nreq, ndir>>

\* ------------------------------------------------ CreateTokenResources.get (whoami)

\* claims = get_jwt_claims(); return {'claims': claims}, 200
\* (WhoamiClaims_FromDirectory: the faulty variant that reads the claims
\* from the Users table.)
WhoamiClaims_FromDirectory(w, cred) ==
  LET row == FirstByEmail(directory, get_jwt_identity(cred))
  IN IF row = None THEN get_jwt_claims(cred)
     ELSE Pop(marshal(row, login_response_field), "password")
WhoamiClaims(w, cred) == get_jwt_claims(cred)

Get(w, cred) ==
  /\ Admit(w, "whoami", cred)
  /\ LET outcome == JwtRequired(cred, now)
     IN /\ jwt' = [jwt EXCEPT ![w] = [outcome |-> outcome, at |-> now, stale |-> FALSE]]
        /\ IF outcome # "ok"
           THEN /\ pc' = [pc EXCEPT ![w] = "Rejected"]
                /\ resp' = [resp EXCEPT ![w] = GateRejected]
                /\ trace' = [trace EXCEPT ![w] = <<"jwt_required">>]
           ELSE /\ pc' = [pc EXCEPT ![w] = "Done"]
                /\ resp' = [resp EXCEPT ![w] = ClaimsReturned(WhoamiClaims(w, cred))]
                /\ trace' = [trace EXCEPT ![w] = <<"jwt_required", "get_jwt_claims">>]
  /\ UNCHANGED <<collation, cache, helper, directory, now, issued, ndir>>

\* ------------------------------------------------------------------ options

Routes == {"/v1/auth", "/v1/auth/refresh"}

\* CreateTokenResources.options returns no headers of its own;
\* RefreshTokenResources.options names the content type.
Options(w, route) ==
  /\ Admit(w, "options", [route |-> route])
  /\ jwt' = [jwt EXCEPT ![w] = None]
  /\ trace' = [trace EXCEPT ![w] = <<>>]
  /\ pc' = [pc EXCEPT ![w] = "Done"]
  /\ resp' = [resp EXCEPT ![w] =
                Response([Status |-> "OK"], 200,
                         IF route = "/v1/auth" THEN NoHeaders ELSE JsonHeaders)]
  /\ UNCHANGED <<collation, cache, helper, directory, now, issued, ndir>>

\* ------------------------------------------------------------- environment

\* A second passes.
Tick ==
  /\ now < MaxTime
  /\ now' = now + 1
  /\ UNCHANGED <<collation, cache, helper, directory, pc, op, args, user, matched, jwt, resp, trace, issued, nreq, ndir>>

\* The flows outside the blueprint that own the Users table: a user's
\* password is changed, the admin flag is flipped, the row is deleted.
\* Subjects are the accounts these flows are run for.
Subjects == {E_user}

UpdatePassword(u, password) ==
  /\ u \in directory
  /\ u.email \in Subjects
  /\ ndir < MaxDirOps
  /\ ~sha256_crypt_verify(password, u.password)
  /\ directory' = (directory \ {u})
                    \cup {[u EXCEPT !.password = sha256_crypt_hash(password, "s3")]}
  /\ ndir' = ndir + 1
  /\ UNCHANGED <<collation, cache, helper, now, pc, op, args, user, matched, jwt, resp, trace, issued, nreq>>

UpdateStatus(u) ==
  /\ u \in directory
  /\ u.email \in Subjects
  /\ ndir < MaxDirOps
  /\ directory' = (directory \ {u}) \cup {[u EXCEPT !.status = ~@]}
  /\ ndir' = ndir + 1
  /\ UNCHANGED <<collation, cache, helper, now, pc, op, args, user, matched, jwt, resp, trace, issued, nreq>>

DeleteUser(u) ==
  /\ u \in directory
  /\ u.email \in Subjects
  /\ ndir < MaxDirOps
  /\ directory' = directory \ {u}
  /\ ndir' = ndir + 1
  /\ UNCHANGED <<collation, cache, helper, now, pc, op, args, user, matched, jwt, resp, trace, issued, nreq>>

\* ------------------------------------------------------------ specification

Next ==
  \/ \E w \in Serving, body \in LoginBodies : Post_ParseArgs(w, body)
  \/ \E w \in Serving : Post_ValidateEmail(w)
  \/ \E w \in Serving : Post_QueryUser(w)
  \/ \E w \in Serving : Post_VerifyPassword(w)
  \/ \E w \in Serving : Post_CreateToken(w)
  \/ \E w \in Serving, cred \in Credentials : Refresh_JwtRequired(w, cred)
  \/ \E w \in Serving : Refresh_CreateToken(w)
  \/ \E w \in Serving, cred \in Credentials : Get(w, cred)
  \/ \E w \in Serving, route \in Routes : Options(w, route)
  \/ Tick
  \/ \E u \in directory, p \in Passwords : UpdatePassword(u, p)
  \/ \E u \in directory : UpdateStatus(u)
  \/ \E u \in directory : DeleteUser(u)

Spec == Init /\ [][Next]_vars

\* ------------------------------------------------------------------ claims

\* What the formulas below read off a worker's request.
IsLogin(w) == op[w] = "login" /\ pc[w] # "idle"
IsGated(w) == op[w] \in {"refresh", "whoami"} /\ pc[w] # "idle"
HasBothFields(w) == {"email", "password"} \subseteq DOMAIN args[w]
CarriesToken(r) == r # None /\ "token" \in DOMAIN r.body
CarriesClaims(r) == r # None /\ "claims" \in DOMAIN r.body

\* C1: a login whose email is well-formed and registered in the table when
\* the table is queried, and whose password verifies against that row's
\* hash, is answered 200 with status 'OK' and a token signed by the server
\* whose identity is the email and whose claims are exactly the row's login
\* fields other than the password.
C1_LoginSuccess ==
  \A w \in Workers :
    ( /\ IsLogin(w) /\ pc[w] \in Terminal
      /\ HasBothFields(w)
      /\ isEmailAddressValid(args[w]["email"])
      /\ \E u \in matched[w] :
           sha256_crypt_verify(args[w]["password"], u.password) )
    => /\ pc[w] = "Issued"
       /\ resp[w].code = 200
       /\ resp[w].headers = JsonHeaders
       /\ DOMAIN resp[w].body = {"status", "token"}
       /\ resp[w].body.status = "OK"
       /\ JwtRequired(resp[w].body.token, resp[w].body.token.iat) = "ok"
       /\ get_jwt_identity(resp[w].body.token) = args[w]["email"]
       /\ LET claims == get_jwt_claims(resp[w].body.token)
          IN /\ DOMAIN claims = login_response_field \ {"password"}
             /\ \A u \in matched[w] : \A f \in DOMAIN claims : claims[f] = u[f]

\* Reached: a login answered 200 for a row that the update flows changed
\* after seeding.
C1_Witness ==
  \E w \in Workers :
    /\ IsLogin(w) /\ pc[w] = "Issued"
    /\ resp[w].code = 200
    /\ matched[w] # {}
    /\ matched[w] \cap SeedUsers = {}

\* C2: no minted token, whether minted by login or by any refresh, carries a
\* 'password' key in its claims, and no response hands one out.
C2_NoPasswordInClaims ==
  /\ \A m \in issued : "password" \notin DOMAIN get_jwt_claims(m.token)
  /\ \A w \in Workers :
       CarriesToken(resp[w]) =>
         "password" \notin DOMAIN get_jwt_claims(resp[w].body.token)

\* Reached: a token minted by refreshing a token that a refresh had minted.
C2_Witness ==
  \E m \in issued :
    /\ m.by = "refresh"
    /\ \E n \in issued : n.token = m.from /\ n.by = "refresh" /\ n.token # m.token

\* C3: a login with a well-formed email is answered with one and the same
\* response, 401 {status: 'UNATHORIZED', message: 'invalid email or
\* password'} with the JSON header and no token, both when the table holds
\* no row for the email and when it holds one whose hash the password does
\* not verify.
C3_EnumerationResistance ==
  \A w \in Workers :
    ( /\ IsLogin(w) /\ pc[w] \in Terminal
      /\ HasBothFields(w)
      /\ isEmailAddressValid(args[w]["email"])
      /\ \/ matched[w] = {}
         \/ \E u \in matched[w] :
              ~sha256_crypt_verify(args[w]["password"], u.password) )
    => /\ pc[w] = "Rejected"
       /\ resp[w] = Response([status |-> "UNATHORIZED",
                              message |-> "invalid email or password"],
                             401, JsonHeaders)
       /\ ~CarriesToken(resp[w])

\* Reached: a login rejected for a wrong password on a registered email.
C3_Witness ==
  \E w \in Workers :
    /\ IsLogin(w) /\ pc[w] = "Rejected"
    /\ matched[w] # {}
    /\ resp[w].code = 401

\* Reached as well: a login rejected because the email is not registered.
C3_WitnessUnregistered ==
  \E w \in Workers :
    /\ IsLogin(w) /\ pc[w] = "Rejected"
    /\ Len(trace[w]) = 3
    /\ matched[w] = {}
    /\ resp[w].code = 401

\* C4: a login that supplies both fields with a syntactically invalid email
\* is answered 400 'Invalid email format!' whatever the password and the
\* table hold; it never queries the table, verifies no password and gets no
\* token.
C4_InvalidEmailRejected ==
  \A w \in Workers :
    ( /\ IsLogin(w) /\ pc[w] \in Terminal
      /\ HasBothFields(w)
      /\ ~isEmailAddressValid(args[w]["email"]) )
    => /\ pc[w] = "Rejected"
       /\ resp[w].code = 400
       /\ resp[w].body = [message |-> "Invalid email format!"]
       /\ trace[w] = <<"parse_args", "isEmailAddressValid">>
       /\ user[w] = None
       /\ matched[w] = {}
       /\ ~CarriesToken(resp[w])

\* Reached: an invalid email rejected although the password sent is the
\* password of a registered user.
C4_Witness ==
  \E w \in Workers :
    /\ IsLogin(w) /\ pc[w] = "Rejected"
    /\ HasBothFields(w)
    /\ args[w]["email"] = E_bad
    /\ \E u \in directory : sha256_crypt_verify(args[w]["password"], u.password)
    /\ resp[w].code = 400

\* What a refresh or whoami request presented, judged without the gate: a
\* token the server minted, and the second at which the gate looked at it.
PresentsMinted(w) == IsGated(w) /\ args[w] \in MintedTokens

\* C5 as stated: a refresh presented with a currently valid token is
\* answered 200 with a new token of the same identity and claims whose
\* expiry is strictly later than the presented token's.
C5_ExpiryStrictlyLater ==
  \A w \in Workers :
    ( /\ PresentsMinted(w) /\ op[w] = "refresh" /\ pc[w] \in Terminal
      /\ jwt[w].at <= args[w].exp )
    => /\ pc[w] = "Issued"
       /\ resp[w].code = 200
       /\ CarriesToken(resp[w])
       /\ get_jwt_identity(resp[w].body.token) = get_jwt_identity(args[w])
       /\ get_jwt_claims(resp[w].body.token) = get_jwt_claims(args[w])
       /\ resp[w].body.token.exp > args[w].exp

\* C5, amended: ... whose expiry is never earlier than the presented
\* token's, and strictly later whenever the refresh is requested in a later
\* clock second than the one in which the presented token was minted.
C5_RefreshRenewsExpiry ==
  \A w \in Workers :
    ( /\ PresentsMinted(w) /\ op[w] = "refresh" /\ pc[w] \in Terminal
      /\ jwt[w].at <= args[w].exp )
    => /\ pc[w] = "Issued"
       /\ resp[w].code = 200
       /\ resp[w].headers = JsonHeaders
       /\ DOMAIN resp[w].body = {"status", "token"}
       /\ resp[w].body.status = "OK"
       /\ JwtRequired(resp[w].body.token, resp[w].body.token.iat) = "ok"
       /\ get_jwt_identity(resp[w].body.token) = get_jwt_identity(args[w])
       /\ get_jwt_claims(resp[w].body.token) = get_jwt_claims(args[w])
       /\ resp[w].body.token.exp >= args[w].exp
       /\ jwt[w].at > args[w].iat => resp[w].body.token.exp > args[w].exp

\* Reached: a refresh whose new token expires strictly later.
C5_Witness ==
  \E w \in Workers :
    /\ PresentsMinted(w) /\ op[w] = "refresh" /\ pc[w] = "Issued"
    /\ resp[w].body.token.exp > args[w].exp

C7_WhoamiRoundTrip ==
  \A w \in Workers :
    \A m \in issued :
      ( /\ IsGated(w) /\ op[w] = "whoami"
        /\ args[w] = m.token
        /\ jwt[w].at < m.token.exp )
      => /\ pc[w] = "Done"
         /\ resp[w] = Response([claims |-> m.claims], 200, JsonHeaders)

\* Reached: the claims of a token minted by refresh returned for a row
\* whose admin flag was changed since.
C7_Witness ==
  \E w \in Workers :
    \E m \in issued :
      /\ IsGated(w) /\ op[w] = "whoami" /\ pc[w] = "Done"
      /\ args[w] = m.token /\ m.by = "refresh"
      /\ jwt[w].at < m.token.exp
      /\ CurrentClaims(m.token.identity) # m.claims

\* C8: a login whose body lacks the email or the password field is rejected
\* with 400 by the argument parser alone: no email validation, no query, no
\* password verification, no token.
C8_MissingFieldRejected ==
  \A w \in Workers :
    ( IsLogin(w) /\ ~HasBothFields(w) )
    => /\ pc[w] = "Rejected"
       /\ resp[w].code = 400
       /\ trace[w] = <<"parse_args">>
       /\ user[w] = None
       /\ ~CarriesToken(resp[w])

\* Reached: a body without password whose email is invalid as well, answered
\* by the parser and not by the email check.
C8_Witness ==
  \E w \in Workers :
    /\ IsLogin(w) /\ pc[w] = "Rejected"
    /\ DOMAIN args[w] = {"email"}
    /\ args[w]["email"] = E_bad
    /\ resp[w] = MissingArgument("password")

\* C9: refresh never queries the Users table: presented with a still valid
\* token it succeeds whatever has become of the user's row, and every token
\* minted by refresh carries the identity and the claims of the token
\* presented for it, along any chain of refreshes.
C9_RefreshIsStale ==
  /\ \A m \in issued :
       m.by = "refresh" =>
         /\ m.from \in MintedTokens
         /\ get_jwt_identity(m.token) = get_jwt_identity(m.from)
         /\ get_jwt_claims(m.token) = get_jwt_claims(m.from)
  /\ \A w \in Workers :
       ( op[w] = "refresh" /\ pc[w] # "idle" ) =>
         /\ \A i \in 1..Len(trace[w]) : trace[w][i] # "query"
         /\ user[w] = None
         /\ ( PresentsMinted(w) /\ pc[w] \in Terminal /\ jwt[w].at <= args[w].exp ) =>
              /\ pc[w] = "Issued"
              /\ get_jwt_claims(resp[w].body.token) = get_jwt_claims(args[w])

\* Reached: a token minted by refresh is refreshed again after the user's
\* row was changed or deleted, and the new token's claims are not what the
\* table holds.
C9_Witness ==
  \E w \in Workers :
    /\ op[w] = "refresh" /\ pc[w] = "Issued"
    /\ jwt[w].stale
    /\ \E n \in issued : /\ n.token = args[w] /\ n.by = "refresh"
                         /\ n.token.iat > n.from.iat

\* C10 as stated: a minted token is accepted by the gate at every time
\* before its expiry, whatever was logged in, refreshed or changed in the
\* table since, and is never accepted at or after its expiry.
C10_RejectedFromExpiry ==
  \A w \in Workers :
    PresentsMinted(w) =>
      ( (pc[w] # "Rejected") <=> (jwt[w].at < args[w].exp) )

\* C10, amended: a minted token is accepted by the gate at every time up to
\* and including the second of its expiry, whatever was logged in, refreshed
\* (the token itself included) or changed in the table since, and is never
\* accepted after its expiry.
C10_NoRevocation ==
  \A w \in Workers :
    PresentsMinted(w) =>
      /\ (pc[w] # "Rejected") <=> (jwt[w].at <= args[w].exp)
      /\ (jwt[w].outcome = "ok") <=> (jwt[w].at <= args[w].exp)
      /\ pc[w] = "Rejected" => resp[w].code = 401

\* Reached: a token is accepted after a refresh was minted from it and after
\* the table changed.
C10_Witness ==
  \E w \in Workers :
    /\ PresentsMinted(w) /\ op[w] = "whoami" /\ pc[w] = "Done"
    /\ directory # SeedUsers
    /\ \E m \in issued : /\ m.by = "refresh" /\ m.from = args[w]
                         /\ m.token # args[w]

\* The calls of a login that runs to the end, in the order of the handler,
\* and the status code of the rejection after each of the four checks.
LoginOrder == <<"parse_args", "isEmailAddressValid", "query", "verify", "create_access_token">>
RejectionCode == <<400, 400, 401, 401>>
LoginPosition ==
  [Received |-> 1, Validated |-> 2, Found |-> 3, Authenticated |-> 4, Issued |-> 5]

\* Which of the four checks a login request passes, judged from the request
\* and from what the table held when it was queried, not from the handler's
\* own variables.
ChecksPassed(w) ==
  IF ~HasBothFields(w) THEN 0
  ELSE IF ~isEmailAddressValid(args[w]["email"]) THEN 1
  ELSE IF Len(trace[w]) >= 3 /\ matched[w] = {} THEN 2
  ELSE IF /\ Len(trace[w]) >= 3
          /\ \A u \in matched[w] : ~sha256_crypt_verify(args[w]["password"], u.password)
       THEN 3
  ELSE 4

\* C11, in every state: the calls a login has made are an initial part of
\* LoginOrder, so the checks run in the fixed order and each at most once;
\* where the request stands is fixed by how far it got; a rejected request
\* stopped at its first failing check, made no later call and carries that
\* check's code (400, 400, 401, 401); a request that was not rejected passed
\* every check it made; only Issued and Rejected carry a response; and a
\* request that has not been answered can always take its next step.
C11_Order ==
  \A w \in Workers :
    IsLogin(w) =>
      /\ Len(trace[w]) \in 1..Len(LoginOrder)
      /\ trace[w] = SubSeq(LoginOrder, 1, Len(trace[w]))
      /\ pc[w] \in (DOMAIN LoginPosition) \cup {"Rejected"}
      /\ pc[w] # "Rejected" =>
            /\ Len(trace[w]) = LoginPosition[pc[w]]
            /\ ChecksPassed(w) >= Len(trace[w]) \/ ChecksPassed(w) = 4
      /\ pc[w] = "Rejected" =>
            /\ Len(trace[w]) \in 1..4
            /\ ChecksPassed(w) = Len(trace[w]) - 1
            /\ resp[w].code = RejectionCode[Len(trace[w])]
            /\ ~CarriesToken(resp[w])
      /\ pc[w] = "Issued" =>
            /\ ChecksPassed(w) = 4
            /\ resp[w].code = 200 /\ CarriesToken(resp[w])
      /\ (pc[w] \in {"Issued", "Rejected"}) <=> (resp[w] # None)
      /\ pc[w] = "Received" => ENABLED Post_ValidateEmail(w)
      /\ pc[w] = "Validated" => ENABLED Post_QueryUser(w)
      /\ pc[w] = "Found" => ENABLED Post_VerifyPassword(w)
      /\ pc[w] = "Authenticated" => ENABLED Post_CreateToken(w)

\* C11, in every step: a login moves one position forward or to Rejected,
\* making exactly one more call; once it is Issued or Rejected nothing of it
\* changes any more (no retry) until the worker is given a new request.
C11_Step ==
  \A w \in Workers :
    ( pc'[w] # pc[w] \/ trace'[w] # trace[w] \/ resp'[w] # resp[w] ) =>
      \/ /\ nreq' = nreq + 1
         /\ pc[w] \in Terminal \cup {"idle"}
         /\ op'[w] = "login" => pc'[w] \in {"Received", "Rejected"}
      \/ /\ nreq' = nreq
         /\ op[w] # "login"
      \/ /\ nreq' = nreq
         /\ op[w] = "login" /\ op'[w] = "login" /\ args'[w] = args[w]
         /\ pc[w] \in {"Received", "Validated", "Found", "Authenticated"}
         /\ \/ pc'[w] = "Rejected" /\ pc[w] # "Authenticated"
            \/ /\ pc'[w] \in DOMAIN LoginPosition
               /\ LoginPosition[pc'[w]] = LoginPosition[pc[w]] + 1
         /\ Len(trace'[w]) = Len(trace[w]) + 1

\* C11: the login state machine, as the two parts above.
C11_LoginStateMachine == []C11_Order /\ [][C11_Step]_vars

\* Reached: a login answered with a token after the worker's previous
\* requests, having made all five calls.
C11_Witness ==
  \E w \in Workers :
    /\ IsLogin(w) /\ pc[w] = "Issued"
    /\ trace[w] = LoginOrder
    /\ nreq > 1

\* Reached as well: a login stopped at the password check.
C11_WitnessRejected ==
  \E w \in Workers :
    /\ IsLogin(w) /\ pc[w] = "Rejected"
    /\ trace[w] = SubSeq(LoginOrder, 1, 4)

\* ------------------------------------------------- letter case of the email

\* The logins of SpecCase: the seeded user's email as stored and in another
\* letter case, with the right and with a wrong password.
CaseBodies == {[email |-> e, password |-> p] : e \in {E_user, E_USER}, p \in Passwords}

InitCase ==
  /\ collation \in Collations
  /\ directory = SeedUsers
  /\ now = 0
  /\ pc = [w \in Workers |-> "idle"]
  /\ op = [w \in Workers |-> "none"]
  /\ args = [w \in Workers |-> None]
  /\ user = [w \in Workers |-> None]
  /\ matched = [w \in Workers |-> {}]
  /\ jwt = [w \in Workers |-> None]
  /\ resp = [w \in Workers |-> None]
  /\ trace = [w \in Workers |-> <<>>]
  /\ issued = {}
  /\ nreq = 0
  /\ ndir = 0
  /\ cache = [k \in CacheKeys |-> None]
  /\ helper = NoCall

\* Both workers serve, the table is left alone, and the tokens presented are
\* tokens the server minted.
NextCase ==
  \/ \E w \in Workers, body \in CaseBodies : Post_ParseArgs(w, body)
  \/ \E w \in Workers : Post_ValidateEmail(w)
  \/ \E w \in Workers : Post_QueryUser(w)
  \/ \E w \in Workers : Post_VerifyPassword(w)
  \/ \E w \in Workers : Post_CreateToken(w)
  \/ \E w \in Workers, cred \in MintedTokens : Refresh_JwtRequired(w, cred)
  \/ \E w \in Workers : Refresh_CreateToken(w)
  \/ \E w \in Workers, cred \in MintedTokens : Get(w, cred)
  \/ Tick

SpecCase == InitCase /\ [][NextCase]_vars

\* C12 as stated: two logins whose emails differ at most in letter case,
\* sent with the same password against the same table, which stores its
\* emails in lower case, are answered alike: both rejected with the same
\* response, or both given a token with the same claims.
C12_SameOutcomeAnyCase ==
  \A v, w \in Workers :
    ( /\ IsLogin(v) /\ pc[v] \in Terminal
      /\ IsLogin(w) /\ pc[w] \in Terminal
      /\ \A u \in directory : u.email = Lower(u.email)
      /\ Lower(args[v]["email"]) = Lower(args[w]["email"])
      /\ args[v]["password"] = args[w]["password"] )
    => /\ pc[v] = pc[w]
       /\ resp[v].code = resp[w].code
       /\ CarriesToken(resp[v]) <=> CarriesToken(resp[w])
       /\ CarriesToken(resp[v]) =>
            get_jwt_claims(resp[v].body.token) = get_jwt_claims(resp[w].body.token)
       /\ ~CarriesToken(resp[v]) => resp[v] = resp[w]

\* Reached: the seeded user's right password is turned away with 401 because
\* the email was spelled in another letter case, while the same login with
\* the stored spelling is given a token.
C12_Diverges ==
  \E v, w \in Workers :
    /\ IsLogin(v) /\ pc[v] = "Issued" /\ args[v] = [email |-> E_user, password |-> "user"]
    /\ IsLogin(w) /\ pc[w] = "Rejected" /\ args[w] = [email |-> E_USER, password |-> "user"]
    /\ resp[w] = Unauthorized
    /\ directory = SeedUsers

\* ------------------------------------------------------------ statelessness

\* The response of each handler written as a function of the request, of the
\* rows the table held under the request's email when it was queried, and of
\* the time: nothing else appears in these definitions.
ExpectedLogin(body, rows, t) ==
  IF "email" \notin DOMAIN body THEN MissingArgument("email")
  ELSE IF "password" \notin DOMAIN body THEN MissingArgument("password")
  ELSE IF ~isEmailAddressValid(body["email"]) THEN InvalidEmailFormat
  ELSE IF rows = {} THEN Unauthorized
  ELSE LET u == CHOOSE r \in rows : TRUE
       IN IF ~sha256_crypt_verify(body["password"], u.password) THEN Unauthorized
          ELSE TokenIssued(create_access_token(
                 body["email"], [id |-> u.id, email |-> u.email, status |-> u.status], t))

ExpectedGated(handler, cred, at, t) ==
  IF DecodeOutcome(cred, at) # "ok" THEN GateRejected
  ELSE IF handler = "whoami" THEN ClaimsReturned(JsonDecode(cred.user_claims))
  ELSE TokenIssued(create_access_token(cred.identity, JsonDecode(cred.user_claims), t))

ExpectedOptions(route) ==
  Response([Status |-> "OK"], 200, IF route = "/v1/auth" THEN NoHeaders ELSE JsonHeaders)

\* C13, in every state: the response of an answered request is the one the
\* functions above give for its body or token, the rows found for it and the
\* time at which it was served, whatever was handled before; and a request
\* starts with nothing left over from the previous one.
C13_Determined ==
  \A w \in Workers :
    /\ ( pc[w] \in Terminal /\ op[w] = "login" ) =>
         \E t \in 0..now : resp[w] = ExpectedLogin(args[w], matched[w], t)
    /\ ( pc[w] \in Terminal /\ op[w] \in {"refresh", "whoami"} ) =>
         \E t \in jwt[w].at..now : resp[w] = ExpectedGated(op[w], args[w], jwt[w].at, t)
    /\ ( pc[w] \in Terminal /\ op[w] = "options" ) =>
         resp[w] = ExpectedOptions(args[w].route)
    /\ ( pc[w] \in {"Received", "Validated", "Verified"} ) =>
         user[w] = None /\ matched[w] = {} /\ resp[w] = None

\* C13, in every step: whatever a handler does, the Users table is left as
\* it was; only the flows outside the blueprint change it.
C13_Frame ==
  ( \E w \in Workers : pc'[w] # pc[w] \/ trace'[w] # trace[w] \/ resp'[w] # resp[w]
                       \/ nreq' # nreq \/ issued' # issued )
    => directory' = directory /\ collation' = collation

\* C13: statelessness, as the two parts above.
C13_Stateless == []C13_Determined /\ [][C13_Frame]_vars

\* Reached: a login for the seeded user with a wrong password is turned
\* away although an earlier login for the same email was given a token and
\* the table has not changed since.
C13_Witness ==
  \E w \in Workers :
    /\ IsLogin(w) /\ pc[w] = "Rejected"
    /\ args[w] = [email |-> E_user, password |-> "admin"]
    /\ resp[w] = Unauthorized
    /\ ndir = 0
    /\ \E m \in issued : m.by = "login" /\ m.token.identity = E_user

\* -------------------------------------------------------------- concurrency

\* The logins of SpecConc: the two seeded users, each with the right and
\* with the other's password.
ConcBodies == {[email |-> e, password |-> p] : e \in {E_user, E_admin}, p \in Passwords}

\* Both workers serve and their steps interleave freely; the table is left
\* alone.
NextConc ==
  \/ \E w \in Workers, body \in ConcBodies : Post_ParseArgs(w, body)
  \/ \E w \in Workers : Post_ValidateEmail(w)
  \/ \E w \in Workers : Post_QueryUser(w)
  \/ \E w \in Workers : Post_VerifyPassword(w)
  \/ \E w \in Workers : Post_CreateToken(w)
  \/ \E w \in Workers, cred \in Credentials : Refresh_JwtRequired(w, cred)
  \/ \E w \in Workers : Refresh_CreateToken(w)
  \/ \E w \in Workers, cred \in Credentials : Get(w, cred)
  \/ Tick

SpecConc == Init /\ [][NextConc]_vars

\* The rows a request run on its own would find under its email.
RowsFor(email) == {u \in SeedUsers : u.email = email}

\* A token the server signed, presented no later than its expiry.
ValidAt(cred, t) ==
  /\ IsTokenShaped(cred)
  /\ cred.sig = Sign(SecretKey, Payload(cred))
  /\ t <= cred.exp

\* C14: however the steps of the two workers interleave, each answered
\* request carries the response that the request would get when served
\* alone against the same table at the same time; a login is given a token
\* only if its password verifies against the row of its own email, and a
\* refresh only if the token it presented was valid when the gate saw it.
C14_Serializable ==
  \A w \in Workers :
    /\ directory = SeedUsers
    /\ ( pc[w] \in Terminal /\ op[w] = "login" ) =>
         /\ \E t \in 0..now : resp[w] = ExpectedLogin(args[w], RowsFor(args[w]["email"]), t)
         /\ CarriesToken(resp[w]) =>
              /\ \E u \in RowsFor(args[w]["email"]) :
                   sha256_crypt_verify(args[w]["password"], u.password)
              /\ get_jwt_identity(resp[w].body.token) = args[w]["email"]
              /\ get_jwt_claims(resp[w].body.token)["email"] = args[w]["email"]
    /\ ( pc[w] \in Terminal /\ op[w] \in {"refresh", "whoami"} ) =>
         /\ \E t \in jwt[w].at..now :
              resp[w] = ExpectedGated(op[w], args[w], jwt[w].at, t)
         /\ CarriesToken(resp[w]) =>
              /\ ValidAt(args[w], jwt[w].at)
              /\ get_jwt_identity(resp[w].body.token) = get_jwt_identity(args[w])
         /\ CarriesClaims(resp[w]) => ValidAt(args[w], jwt[w].at)

\* Reached: while one worker's login for the admin with the user's password
\* has found the admin's row and waits to verify, the other worker's login
\* for the user with the same password has found the user's row, verified
\* and been given a token.
C14_Witness ==
  \E v, w \in Workers :
    /\ v # w
    /\ IsLogin(v) /\ pc[v] = "Found"
    /\ args[v] = [email |-> E_admin, password |-> "user"]
    /\ IsLogin(w) /\ pc[w] = "Issued"
    /\ args[w] = [email |-> E_user, password |-> "user"]
    /\ nreq = 2

\* --------------------------------------------------------------- provenance

\* A login that authenticated: the table held a row under its email when it
\* was queried, and its password verifies against that row's hash.
Authenticated(w) ==
  \E u \in matched[w] :
    /\ SameEmail(u.email, args[w]["email"])
    /\ sha256_crypt_verify(args[w]["password"], u.password)

\* C15, in every state: every minted token has the identity and the claims
\* of a token minted by login no later than it; a token minted by refresh was
\* minted for a token the server had minted; every token a response hands
\* out is a minted one; and a login that was given a token authenticated.
C15_Origin ==
  /\ \A m \in issued :
       /\ \E l \in issued :
            /\ l.by = "login"
            /\ get_jwt_identity(l.token) = get_jwt_identity(m.token)
            /\ get_jwt_claims(l.token) = get_jwt_claims(m.token)
            /\ l.token.iat <= m.token.iat
       /\ m.by = "refresh" => m.from \in MintedTokens
       /\ m.by = "login" => m.from = None
  /\ \A w \in Workers :
       /\ CarriesToken(resp[w]) => resp[w].body.token \in MintedTokens
       /\ ( IsLogin(w) /\ pc[w] = "Issued" ) => Authenticated(w)

\* C15, in every step: a token is minted only by a login that authenticated
\* and then for the email of that login, or by a refresh whose presented
\* token is a minted one that passed the gate, and then for the identity and
\* claims of that token; one token per step, handed to that request.
C15_Mint ==
  issued' # issued =>
    \E w \in Workers :
      /\ pc[w] \in {"Authenticated", "Verified"} /\ pc'[w] = "Issued"
      /\ CarriesToken(resp'[w])
      /\ \E m \in issued' :
           /\ issued' = issued \cup {m}
           /\ m.token = resp'[w].body.token
           /\ m.by = op[w]
           /\ op[w] = "login" =>
                /\ Authenticated(w)
                /\ get_jwt_identity(m.token) = args[w]["email"]
                /\ \E u \in matched[w] :
                     get_jwt_claims(m.token) = [id |-> u.id, email |-> u.email, status |-> u.status]
           /\ op[w] = "refresh" =>
                /\ args[w] \in MintedTokens
                /\ jwt[w].outcome = "ok"
                /\ m.from = args[w]
                /\ get_jwt_identity(m.token) = get_jwt_identity(args[w])
                /\ get_jwt_claims(m.token) = get_jwt_claims(args[w])

\* C15: token provenance, as the two parts above.
C15_Provenance == []C15_Origin /\ [][C15_Mint]_vars

\* Reached: a refresh mints a token for an identity whose row is no longer
\* in the table; the identity logged in while it was.
C15_Witness ==
  \E w \in Workers :
    /\ op[w] = "refresh" /\ pc[w] = "Issued"
    /\ FirstByEmail(directory, get_jwt_identity(resp[w].body.token)) = None
    /\ \E l \in issued : /\ l.by = "login"
                         /\ get_jwt_identity(l.token) = get_jwt_identity(resp[w].body.token)

\* ------------------------------------------------- identity and email claim

\* C16 as stated: every minted token, by login or by any chain of refreshes,
\* has as its identity the email field of its claims.
C16_IdentityIsEmailClaim ==
  \A m \in issued :
    get_jwt_identity(m.token) = get_jwt_claims(m.token)["email"]

\* Reached: on a column that compares regardless of letter case, a login
\* that spelled the seeded user's email in another case was given a token
\* whose identity is that spelling while its email claim is the stored one,
\* and a refresh has carried the pair over into a new token.
C16_Diverges ==
  \E m \in issued :
    /\ m.by = "refresh"
    /\ m.token # m.from
    /\ get_jwt_identity(m.token) = E_USER
    /\ get_jwt_claims(m.token)["email"] = E_user
    /\ collation = "ci"

\* ------------------------------------------- the token helpers of the tests

\* timeout=60 of cache.set, in seconds.
CacheTimeout == 60

\* createTokenUser, createTokenAdmin and createTokenInvalid: the key each
\* looks up and sets, and the credentials each logs in with.
Helpers == {"createTokenUser", "createTokenAdmin", "createTokenInvalid"}
HelperKey ==
  [createTokenUser |-> "token-user", createTokenAdmin |-> "token-admin",
   createTokenInvalid |-> "token-admin"]
HelperData ==
  [createTokenUser |-> [email |-> E_user, password |-> "user"],
   createTokenAdmin |-> [email |-> E_admin, password |-> "admin"],
   createTokenInvalid |-> [email |-> E_admin, password |-> "user"]]

\* cache.get(key) at clock value t: the value of an entry that has not timed
\* out, else None.
CacheGet(key, t) ==
  IF cache[key] # None /\ t < cache[key].expires THEN cache[key].value ELSE None

\* token = cache.get(key); if token is None: ... else: return token
Helper_CacheGet(h) ==
  /\ helper.pc \in {"idle", "Returned", "AssertionError"}
  /\ nreq < MaxReq
  /\ LET token == CacheGet(HelperKey[h], now)
     IN helper' = [name |-> h, pc |-> IF token = None THEN "Missed" ELSE "Returned",
                   hit |-> token # None, seq |-> nreq, at |-> now, result |-> token]
  /\ UNCHANGED <<collation, directory, now, pc, op, args, user, matched, jwt, resp, trace,
                 issued, nreq, ndir, cache>>

\* res = req.post('/v1/auth', data=json.dumps(data), ...): the login request
\* of the helper enters the handler.
Helper_Post(w) ==
  /\ helper.pc = "Missed"
  /\ nreq = helper.seq
  /\ Post_ParseArgs(w, HelperData[helper.name])

\* assert res.status_code == 200; cache.set(key, res_json['token'],
\* timeout=60); return res_json['token']
Helper_Assert(w) ==
  /\ helper.pc = "Missed"
  /\ nreq = helper.seq + 1
  /\ pc[w] \in Terminal
  /\ IF resp[w].code = 200
     THEN /\ cache' = [cache EXCEPT ![HelperKey[helper.name]] =
                         [value |-> resp[w].body.token, expires |-> now + CacheTimeout]]
          /\ helper' = [helper EXCEPT !.pc = "Returned", !.at = now,
                                      !.result = resp[w].body.token]
     ELSE /\ helper' = [helper EXCEPT !.pc = "AssertionError", !.at = now]
          /\ UNCHANGED cache
  /\ UNCHANGED <<collation, directory, now, pc, op, args, user, matched, jwt, resp, trace,
                 issued, nreq, ndir>>

\* Time passes between two tests, half a cache timeout at a time.
Wait ==
  /\ now < MaxTime * CacheTimeout
  /\ now' = now + (CacheTimeout \div 2)
  /\ UNCHANGED <<collation, directory, pc, op, args, user, matched, jwt, resp, trace,
                 issued, nreq, ndir, cache, helper>>

NextTest ==
  \/ \E h \in Helpers : Helper_CacheGet(h)
  \/ \E w \in Serving : Helper_Post(w)
  \/ \E w \in Serving : Post_ValidateEmail(w)
  \/ \E w \in Serving : Post_QueryUser(w)
  \/ \E w \in Serving : Post_VerifyPassword(w)
  \/ \E w \in Serving : Post_CreateToken(w)
  \/ \E w \in Serving : Helper_Assert(w)
  \/ Wait

SpecTest == Init /\ [][NextTest]_vars

\* A call of createTokenInvalid that has ended, by return or by a failed
\* assertion.
InvalidEnded ==
  helper.name = "createTokenInvalid" /\ helper.pc \in {"Returned", "AssertionError"}

\* C17 as stated: a call of createTokenInvalid that finds no 'token-admin'
\* entry logs in as admin@admin.com with password 'user', the login is
\* answered 200 with a token, and the token is put under 'token-admin' for 60
\* seconds and returned; a call that finds an entry returns it without
\* logging in.
C17_InvalidLoginCached ==
  \A w \in Serving :
    /\ ( InvalidEnded /\ ~helper.hit ) =>
         /\ nreq = helper.seq + 1
         /\ args[w] = [email |-> E_admin, password |-> "user"]
         /\ resp[w].code = 200
         /\ CarriesToken(resp[w])
         /\ helper.pc = "Returned"
         /\ helper.result = resp[w].body.token
         /\ cache["token-admin"] =
              [value |-> resp[w].body.token, expires |-> helper.at + CacheTimeout]
    /\ ( InvalidEnded /\ helper.hit ) =>
         /\ nreq = helper.seq
         /\ helper.pc = "Returned"
         /\ helper.result = cache["token-admin"].value

\* Reached: createTokenInvalid found no entry, its login was answered 401
\* 'invalid email or password', its assertion failed and nothing was cached.
C17_Diverges ==
  \E w \in Serving :
    /\ InvalidEnded /\ ~helper.hit
    /\ helper.pc = "AssertionError"
    /\ args[w] = [email |-> E_admin, password |-> "user"]
    /\ resp[w] = Unauthorized
    /\ cache["token-admin"] = None
    /\ directory = SeedUsers

\* What holds of the helper as written: a call that finds no entry always
\* ends in the failed assertion with nothing cached by it, and a call that
\* finds an entry returns a token that createTokenAdmin obtained for the
\* admin's own password.
C17_InvalidAlwaysFails ==
  \A w \in Serving :
    /\ ( InvalidEnded /\ ~helper.hit ) =>
         /\ helper.pc = "AssertionError"
         /\ resp[w] = Unauthorized
         /\ cache["token-admin"] = None \/ helper.at >= cache["token-admin"].expires
    /\ ( InvalidEnded /\ helper.hit ) =>
         /\ nreq = helper.seq
         /\ helper.result = cache["token-admin"].value
         /\ \E m \in issued : m.by = "login" /\ m.token = helper.result
         /\ get_jwt_identity(helper.result) = E_admin

\* Reached as well: createTokenInvalid returned the admin's token that
\* createTokenAdmin had cached.
C17_ReturnsAdminToken ==
  /\ InvalidEnded /\ helper.hit
  /\ get_jwt_claims(helper.result)["status"] = TRUE

====
